---- MODULE Spec2Model ----
(***************************************************************************)
(* State-machine model of src/app7.py: the session orchestration of the    *)
(* job-application assistant (thread creation, seed prompts, question      *)
(* quota, run/poll loop, retry executor, reset).                           *)
(*                                                                         *)
(* One script run of main() is cut at its remote calls: every call made    *)
(* through safe_api_call is a position of pc, and one step of the model is *)
(* one invocation of the wrapped remote operation together with the code   *)
(* that follows it up to the next remote call.  Between script runs the    *)
(* model is at pc = "idle" (waiting for the user) or pc = "rerun" (the     *)
(* script asked for st.rerun()).  An exception that leaves main() ends the *)
(* script run and leaves the session object as it is.                      *)
(*                                                                         *)
(* The texts carried into the prompts (resume_text, job_description_text,  *)
(* job_url, job_type and the two *_input_method fields) are written from   *)
(* the sidebar widgets at every script run and only read to build prompt   *)
(* strings; prompt contents are not modelled, so these fields are inputs   *)
(* of StartChatClicked and no variables.                                   *)
(***************************************************************************)
EXTENDS Integers, Sequences, FiniteSets, TLC

\* ------------------------------------------------------------------ bounds

\* The session ceiling, scaled down from the program's 500.
MaxQuestions == 2
\* Assistant messages one run can produce.
MaxReply == 1

\* -------------------------------------------------------------- constants

MAX_RETRIES == 3
MAX_JOB_DESCRIPTION_LENGTH == 50000
MAX_QUESTIONS_PER_SESSION == MaxQuestions

None == 0
DefaultQuestion == "Select a predefined question"
PredefinedQuestions == {"LinkedIn Request | Hiring Manager (300 characters)"}
Absent == "absent"

RunStatus == {"queued", "in_progress", "completed", "failed", "cancelled", "expired"}
TerminalStatus == {"completed", "failed", "cancelled", "expired"}
NonCompletedTerminal == TerminalStatus \ {"completed"}

ApiOutcome == {"ok", "transient", "other"}
ApiSites == {"create_thread", "create_message", "create_run", "poll", "harvest"}
\* the positions inside the polling loop of run_assistant
Polling == {"poll_sleep", "poll"}

NoRun == [id |-> None, status |-> "none"]
\* a finished call: invocations made, sleeps made, how it ended, and the outcome
\* of its last invocation (the error e the except clause, or nothing, caught)
NoCall == [attempts |-> 0, sleeps |-> 0, result |-> "none", error |-> "none"]

VARIABLES
    \* SessionState
    start_chat, thread_id, buttons_shown, messages, processing,
    assistant_is_typing, question_count,
    \* st.session_state.previous_question and the selectbox keyed "predefined_question"
    previous_question, predefined_question,
    \* the script run: position, the handler that is running, run_assistant's local run
    pc, caller, run,
    \* safe_api_call: loop index, sleeps made in this call; the call that finished
    \* last, kept until the script sleeps again (between polls, or between the
    \* attempts of the next call)
    attempt, sleeps, last_call,
    \* the session as it was when the question being handled was entered
    before,
    \* the remote service, as far as the session can reach it: the messages of the
    \* thread it names, the number of runs created in that thread, and the run
    \* the polling loop is waiting for
    thread_messages, runs, remote_run

session == <<start_chat, thread_id, buttons_shown, messages, processing,
             assistant_is_typing, question_count>>
widgets == <<previous_question, predefined_question>>
executor == <<attempt, sleeps, last_call>>
remote == <<thread_messages, runs, remote_run>>
vars == <<session, widgets, pc, caller, run, executor, before, remote>>

NoSnapshot == [messages |-> <<>>, question_count |-> 0, thread_id |-> 0,
               start_chat |-> FALSE, assistant_is_typing |-> FALSE,
               processing |-> FALSE, buttons_shown |-> FALSE]

\* the session fields, as a record
Snapshot == [messages |-> messages, question_count |-> question_count,
             thread_id |-> thread_id, start_chat |-> start_chat,
             assistant_is_typing |-> assistant_is_typing,
             processing |-> processing, buttons_shown |-> buttons_shown]

\* ------------------------------------------------------------ SessionState

Init ==
    /\ start_chat = FALSE
    /\ thread_id = None
    /\ buttons_shown = FALSE
    /\ messages = <<>>
    /\ processing = FALSE
    /\ assistant_is_typing = FALSE
    /\ question_count = 0
    /\ previous_question = Absent
    /\ predefined_question = DefaultQuestion
    /\ pc = "idle"
    /\ caller = "none"
    /\ run = NoRun
    /\ attempt = 0
    /\ sleeps = 0
    /\ last_call = NoCall
    /\ before = NoSnapshot
    /\ runs = 0
    /\ thread_messages = <<>>
    /\ remote_run = NoRun

\* SessionState.__init__: the fields of a session that was just constructed
FreshSession == [messages |-> <<>>, question_count |-> 0, thread_id |-> None,
                 start_chat |-> FALSE, assistant_is_typing |-> FALSE,
                 processing |-> FALSE, buttons_shown |-> FALSE]

\* ---------------------------------------------------------- pure functions

\* validate_job_description, on the length of the text: is_valid
validate_job_description(len) ==
    IF len = 0 THEN FALSE
    ELSE IF len > MAX_JOB_DESCRIPTION_LENGTH THEN FALSE
    ELSE TRUE

JobInputMethods == {"Enter Job URL", "Enter Job Description"}
InputLengths == {0, 1, MAX_JOB_DESCRIPTION_LENGTH + 1}

\* The "Start Chat" branch of main(): TRUE when it sets processing and reruns.
\* len is the length of the pasted description, or of the URL; fetched tells
\* whether fetch_content returned a page.
StartChatAccepted(method, len, fetched) ==
    IF len = 0 THEN FALSE
    ELSE IF method = "Enter Job Description" THEN validate_job_description(len)
    ELSE fetched

\* main(): the session has used up its questions
LimitReached(count) == count >= MAX_QUESTIONS_PER_SESSION

\* chat_interface(): the quota check in front of each question
QuotaAllowed(count) == count < MAX_QUESTIONS_PER_SESSION

\* a decrement in place of the increment
IncrementCount_decrement(count) == count - 1

\* the increment left out
IncrementCount_skipped(count) == count

\* chat_interface(): state.question_count += 1
IncrementCount(count) == count + 1

\* the last attempt taken for one more than it is: the loop sleeps after it too
safe_api_call_late_raise(a, o) ==
    IF ~(a < MAX_RETRIES) THEN "return_none"
    ELSE IF o = "ok" THEN "return"
    ELSE IF o = "transient"
         THEN IF a = MAX_RETRIES THEN "raise_APIError" ELSE "sleep"
    ELSE "raise"

\* APIError at the first error of the caught class, without a retry
safe_api_call_no_retry(a, o) ==
    IF ~(a < MAX_RETRIES) THEN "return_none"
    ELSE IF o = "ok" THEN "return"
    ELSE IF o = "transient" THEN "raise_APIError"
    ELSE "raise"

\* an except clause that catches every exception
safe_api_call_catch_all(a, o) ==
    IF ~(a < MAX_RETRIES) THEN "return_none"
    ELSE IF o = "ok" THEN "return"
    ELSE IF a = MAX_RETRIES - 1 THEN "raise_APIError" ELSE "sleep"

\* safe_api_call: what the loop does at index a when the wrapped operation ends
\* with outcome o ("ok": it returned; "transient": it raised an error of the
\* class the except clause names; "other": it raised anything else).
safe_api_call(a, o) ==
    IF ~(a < MAX_RETRIES) THEN "return_none"
    ELSE IF o = "ok" THEN "return"
    ELSE IF o = "transient"
         THEN IF a = MAX_RETRIES - 1 THEN "raise_APIError" ELSE "sleep"
    ELSE "raise"

\* a loop that only waits for the run to leave the queue
PollAgain_while_queued(status) == status = "queued"

\* run_assistant: the condition of the polling loop
PollAgain(status) == status # "completed"

\* the filter without its run_id test
AssistantMessages_any_run(list, run_id) ==
    SelectSeq(list, LAMBDA m : m.role = "assistant")

\* run_assistant: the messages of the list kept for the transcript
AssistantMessages(list, run_id) ==
    SelectSeq(list, LAMBDA m : m.run_id = run_id /\ m.role = "assistant")

\* run_assistant: the transcript entries made of them.  Beside the role the
\* code writes, an entry records where it comes from: author and run are the
\* role and run_id of the remote message, by is the run this run_assistant
\* created, status the status that run has at the service at that moment.
AssistantEntries(list, by, status) ==
    [i \in 1..Len(list) |->
        [role |-> "assistant", author |-> list[i].role, run |-> list[i].run_id,
         by |-> by, status |-> status]]

\* the question appended under the assistant's role
UserEntry_assistant_role ==
    [role |-> "assistant", author |-> "user", run |-> None, by |-> None, status |-> "none"]

\* the transcript entry of a question; the texts are not modelled
UserEntry ==
    [role |-> "user", author |-> "user", run |-> None, by |-> None, status |-> "none"]

\* ------------------------------------------------------------- reset_chat

\* reset_chat without its thread_id line
reset_chat_keeps_thread ==
    /\ messages' = <<>>
    /\ start_chat' = FALSE
    /\ buttons_shown' = FALSE
    /\ assistant_is_typing' = FALSE
    /\ question_count' = 0
    /\ UNCHANGED <<thread_id, processing>>

\* reset_chat without its assistant_is_typing line
reset_chat_keeps_flag ==
    /\ messages' = <<>>
    /\ start_chat' = FALSE
    /\ thread_id' = None
    /\ buttons_shown' = FALSE
    /\ question_count' = 0
    /\ UNCHANGED <<assistant_is_typing, processing>>

reset_chat ==
    /\ messages' = <<>>
    /\ start_chat' = FALSE
    /\ thread_id' = None
    /\ buttons_shown' = FALSE
    /\ assistant_is_typing' = FALSE
    /\ question_count' = 0
    /\ UNCHANGED processing

\* ----------------------------------------------------- user events, main()

\* The session names no thread any more: nothing the service holds can be read.
Forgotten ==
    /\ thread_messages' = <<>>
    /\ runs' = 0
    /\ remote_run' = NoRun

Keep(forget) == IF forget THEN Forgotten ELSE UNCHANGED remote

NewScriptRun(who) ==
    /\ caller' = who
    /\ last_call' = NoCall
    /\ before' = IF who \in {"typed", "predefined"} THEN Snapshot ELSE NoSnapshot
    /\ run' = NoRun
    /\ UNCHANGED <<attempt, sleeps>>

\* "Start New Session", the only control main() shows at the ceiling
StartNewSession ==
    /\ pc = "idle"
    /\ LimitReached(question_count)
    /\ reset_chat
    /\ pc' = "rerun"
    /\ NewScriptRun("reset")
    /\ Forgotten
    /\ UNCHANGED widgets

\* "Exit Chat"
ExitChat ==
    /\ pc = "idle"
    /\ ~LimitReached(question_count)
    /\ ~processing
    /\ reset_chat
    /\ pc' = "rerun"
    /\ NewScriptRun("reset")
    /\ Forgotten
    /\ UNCHANGED widgets

\* "Start Chat" with sidebar inputs that pass the checks
StartChatClicked ==
    /\ pc = "idle"
    /\ ~LimitReached(question_count)
    /\ \E method \in JobInputMethods, len \in InputLengths, fetched \in BOOLEAN :
           StartChatAccepted(method, len, fetched)
    /\ processing' = TRUE
    /\ pc' = "rerun"
    /\ NewScriptRun("click")
    /\ UNCHANGED <<start_chat, thread_id, buttons_shown, messages,
                   assistant_is_typing, question_count, widgets, remote>>

\* main() with state.processing set: start_chat() up to its create_thread call
StartChat ==
    /\ pc = "rerun"
    /\ ~LimitReached(question_count)
    /\ processing
    /\ start_chat' = TRUE
    /\ buttons_shown' = FALSE
    /\ messages' = <<>>
    /\ processing' = FALSE
    /\ assistant_is_typing' = FALSE
    /\ previous_question' = DefaultQuestion
    /\ pc' = "create_thread"
    /\ NewScriptRun("start")
    /\ UNCHANGED <<thread_id, question_count, predefined_question, remote>>

\* chat_interface(): a question typed into st.chat_input
TypeQuestion ==
    /\ pc = "idle"
    /\ ~LimitReached(question_count)
    /\ ~processing
    /\ start_chat
    /\ IF QuotaAllowed(question_count)
       THEN /\ question_count' = IncrementCount(question_count)
            /\ messages' = Append(messages, UserEntry)
            /\ pc' = "create_message"
            /\ UNCHANGED <<start_chat, thread_id, buttons_shown, processing,
                           assistant_is_typing>>
       ELSE /\ reset_chat
            /\ pc' = "rerun"
    /\ Keep(~QuotaAllowed(question_count))
    /\ NewScriptRun("typed")
    /\ UNCHANGED widgets

\* the user picks another entry of the "predefined_question" selectbox
SelectPredefined ==
    /\ pc = "idle"
    /\ ~LimitReached(question_count)
    /\ start_chat /\ ~assistant_is_typing
    /\ \E q \in PredefinedQuestions \cup {DefaultQuestion} :
           /\ q # predefined_question
           /\ predefined_question' = q
    /\ pc' = "rerun"
    /\ NewScriptRun("none")
    /\ UNCHANGED <<session, previous_question, remote>>

\* A script run with no button pressed and nothing typed: after st.rerun(), or
\* after the user touched a sidebar widget or pressed "Start Chat" with inputs
\* that are rejected.  It ends in chat_interface()'s predefined-question block.
Render ==
    /\ pc \in {"idle", "rerun"}
    /\ ~processing
    /\ IF LimitReached(question_count) \/ ~(start_chat /\ ~assistant_is_typing)
       THEN /\ pc' = "idle"
            /\ NewScriptRun("none")
            /\ UNCHANGED <<session, widgets>>
       ELSE LET previous == IF previous_question = Absent
                            THEN DefaultQuestion ELSE previous_question
            IN  /\ previous_question' = previous
                /\ UNCHANGED predefined_question
                /\ IF predefined_question # DefaultQuestion
                      /\ predefined_question # previous
                   THEN /\ NewScriptRun("predefined")
                        /\ IF QuotaAllowed(question_count)
                           THEN /\ question_count' = IncrementCount(question_count)
                                /\ messages' = Append(messages, UserEntry)
                                /\ pc' = "create_message"
                                /\ UNCHANGED <<start_chat, thread_id, buttons_shown,
                                               processing, assistant_is_typing>>
                           ELSE /\ reset_chat
                                /\ pc' = "rerun"
                   ELSE /\ pc' = "idle"
                        /\ NewScriptRun("none")
                        /\ UNCHANGED session
    /\ Keep(/\ ~LimitReached(question_count)
            /\ start_chat /\ ~assistant_is_typing
            /\ predefined_question # DefaultQuestion
            /\ predefined_question # previous_question
            /\ ~QuotaAllowed(question_count))

\* ------------------------------------------------- calls through safe_api_call

\* Identifiers are opaque.  A new thread is named by a number that differs from
\* the thread the session names; a run by its rank among the runs of its thread.
ThreadIds == {1, 2}
NewThread(old) == IF old = 1 THEN 2 ELSE 1

\* The client library refuses a call that names no thread before it sends
\* anything; every other call can end in each of the three ways.
PossibleOutcomes ==
    IF pc # "create_thread" /\ thread_id = None THEN {"other"} ELSE ApiOutcome

\* safe_api_call returns the result of the wrapped operation
Returns(site) ==
    /\ pc = site
    /\ "ok" \in PossibleOutcomes
    /\ safe_api_call(attempt, "ok") = "return"
    /\ last_call' = [attempts |-> attempt + 1, sleeps |-> sleeps, result |-> "ok",
                     error |-> "none"]
    /\ attempt' = 0
    /\ sleeps' = 0

\* safe_api_call sleeps RETRY_DELAY and goes round its loop
ApiRetry ==
    /\ pc \in ApiSites
    /\ \E o \in PossibleOutcomes : safe_api_call(attempt, o) = "sleep"
    /\ attempt' = attempt + 1
    /\ sleeps' = sleeps + 1
    /\ last_call' = NoCall
    /\ UNCHANGED <<session, widgets, pc, caller, run, before, remote>>

\* safe_api_call raises (APIError after the last attempt, or the error it does
\* not catch), or leaves its loop with no result, which the caller dereferences.
\* The exception leaves main(): the script run is over, and a run it was
\* waiting for is abandoned.
ApiRaise ==
    /\ pc \in ApiSites
    /\ \E o \in PossibleOutcomes :
          LET does == safe_api_call(attempt, o) IN
          /\ does \in {"raise_APIError", "raise", "return_none"}
          /\ last_call' = [attempts |-> IF does = "return_none" THEN attempt ELSE attempt + 1,
                           sleeps |-> sleeps,
                           result |-> IF does = "raise_APIError" THEN "APIError"
                                      ELSE IF does = "raise" THEN "error" ELSE "None",
                           error |-> IF does = "return_none" THEN "none" ELSE o]
    /\ attempt' = 0
    /\ sleeps' = 0
    /\ pc' = "idle"
    /\ run' = NoRun
    /\ remote_run' = NoRun
    /\ UNCHANGED <<session, widgets, caller, before, thread_messages, runs>>

\* the thread is created and its id is not stored
CreateThread_not_stored ==
    /\ Returns("create_thread")
    /\ thread_messages' = <<>>
    /\ runs' = 0
    /\ caller' = "seed1"
    /\ pc' = "create_message"
    /\ UNCHANGED <<session, widgets, run, before, remote_run>>

\* start_chat(): create_thread() returned; send_initial_messages() begins
CreateThread ==
    /\ Returns("create_thread")
    /\ thread_id' = NewThread(thread_id)
    /\ thread_messages' = <<>>
    /\ runs' = 0
    /\ caller' = "seed1"
    /\ pc' = "create_message"
    /\ UNCHANGED <<start_chat, buttons_shown, messages, processing, assistant_is_typing,
                   question_count, widgets, run, before, remote_run>>

\* the text a caller posts: send_initial_messages its two prompts, in this
\* order; chat_interface the question typed or the prompt of the selection
Prompt(who) ==
    IF who = "seed1" THEN "initial_prompt"
    ELSE IF who = "seed2" THEN "second_prompt"
    ELSE "question"

\* create_message() returned: the prompt is in the thread
CreateMessage ==
    /\ Returns("create_message")
    /\ thread_messages' =
           Append(thread_messages, [run_id |-> None, role |-> "user", content |-> Prompt(caller)])
    /\ pc' = "create_run"
    /\ UNCHANGED <<session, widgets, caller, run, before, runs, remote_run>>

\* run_assistant(): create_run() returned; the flag is set and the loop entered
CreateRun ==
    /\ Returns("create_run")
    /\ runs' = runs + 1
    /\ remote_run' = [id |-> runs + 1, status |-> "queued"]
    /\ run' = [id |-> runs + 1, status |-> "queued"]
    /\ assistant_is_typing' = TRUE
    /\ pc' = IF PollAgain("queued") THEN "poll_sleep" ELSE "harvest"
    /\ UNCHANGED <<start_chat, thread_id, buttons_shown, messages, processing,
                   question_count, widgets, caller, before, thread_messages>>

\* run_assistant(): the loop sleeps one second before it asks again
PollSleep ==
    /\ pc = "poll_sleep"
    /\ pc' = "poll"
    /\ last_call' = NoCall
    /\ UNCHANGED <<session, widgets, caller, run, attempt, sleeps, before, remote>>

\* run_assistant(): get_run_status() returned, and the loop condition is read
GetRunStatus ==
    /\ Returns("poll")
    /\ run' = [id |-> run.id, status |-> remote_run.status]
    /\ pc' = IF PollAgain(remote_run.status) THEN "poll_sleep" ELSE "harvest"
    /\ UNCHANGED <<session, widgets, caller, before, remote>>

\* run_assistant(): get_messages() returned; the replies are appended, the flag
\* is cleared and the caller goes on
GetMessages ==
    /\ Returns("harvest")
    /\ messages' = messages \o
           AssistantEntries(AssistantMessages(thread_messages, run.id), run.id,
                            remote_run.status)
    /\ assistant_is_typing' = FALSE
    /\ IF caller = "seed1"
       THEN /\ caller' = "seed2"
            /\ pc' = "create_message"
            /\ UNCHANGED <<processing, previous_question>>
       ELSE /\ pc' = "rerun"
            /\ processing' = (IF caller = "seed2" THEN FALSE ELSE processing)
            /\ previous_question' = (IF caller = "predefined" THEN predefined_question
                                     ELSE previous_question)
            /\ UNCHANGED caller
    /\ UNCHANGED <<start_chat, thread_id, buttons_shown, question_count,
                   predefined_question, run, before, remote>>

\* ------------------------------------------------------- the remote service
\* The service is followed for the run a polling loop is waiting for; a run
\* whose script run ended in an exception is read by nothing afterwards.

\* the run moves on: queued, in_progress, then one of the terminal statuses
RemoteAdvance ==
    /\ pc \in Polling
    /\ \/ /\ remote_run.status = "queued"
          /\ remote_run' = [remote_run EXCEPT !.status = "in_progress"]
       \/ /\ remote_run.status = "in_progress"
          /\ \E s \in TerminalStatus : remote_run' = [remote_run EXCEPT !.status = s]
    /\ UNCHANGED <<session, widgets, pc, caller, run, executor, before,
                   thread_messages, runs>>

Produced(r) == Len(SelectSeq(thread_messages, LAMBDA m : m.run_id = r))

\* the run in progress writes an assistant message into its thread
RemoteReply ==
    /\ pc \in Polling
    /\ remote_run.status = "in_progress"
    /\ Produced(remote_run.id) < MaxReply
    /\ thread_messages' =
           Append(thread_messages, [run_id |-> remote_run.id, role |-> "assistant",
                                    content |-> "reply"])
    /\ UNCHANGED <<session, widgets, pc, caller, run, executor, before,
                   runs, remote_run>>

\* ------------------------------------------------------------ specification

Next ==
    \/ StartNewSession
    \/ ExitChat
    \/ StartChatClicked
    \/ StartChat
    \/ TypeQuestion
    \/ SelectPredefined
    \/ Render
    \/ ApiRetry
    \/ ApiRaise
    \/ CreateThread
    \/ CreateMessage
    \/ CreateRun
    \/ PollSleep
    \/ GetRunStatus
    \/ GetMessages
    \/ RemoteAdvance
    \/ RemoteReply

Spec == Init /\ [][Next]_vars

\* The script that is running keeps running: the blocking loop of run_assistant
\* makes its next status fetch, and a completed run is harvested.
FairSpec == Spec /\ WF_vars(PollSleep) /\ WF_vars(GetRunStatus) /\ WF_vars(GetMessages)

TypeOK ==
    /\ start_chat \in BOOLEAN /\ processing \in BOOLEAN
    /\ assistant_is_typing \in BOOLEAN /\ buttons_shown \in BOOLEAN
    /\ thread_id \in {None} \cup ThreadIds
    /\ question_count \in Int
    /\ pc \in ApiSites \cup {"idle", "rerun", "poll_sleep"}
    /\ attempt \in 0..MAX_RETRIES /\ sleeps \in 0..MAX_RETRIES
    /\ runs \in 0..(MAX_QUESTIONS_PER_SESSION + 2)

\* ------------------------------------------------------------------ claims

\* how the script run ended, when it ended in an exception
Raised ==
    IF pc = "idle" /\ last_call.result \notin {"none", "ok"} THEN last_call.result
    ELSE "none"

UserPosts(list) == Len(SelectSeq(list, LAMBDA m : m.role = "user"))

AtRest == pc \in {"idle", "rerun"}

\* what reset_chat leaves
IsReset ==
    /\ question_count = 0 /\ messages = <<>> /\ ~start_chat /\ thread_id = None

\* C1: question_count stays within 0..MAX_QUESTIONS_PER_SESSION; once it equals the
\* ceiling it only changes by a reset, and between script runs no question is
\* admitted at the ceiling (nothing is appended, posted or run) until the reset.
C1_QuotaCeiling ==
    /\ [](question_count \in 0..MAX_QUESTIONS_PER_SESSION)
    /\ [][question_count = MAX_QUESTIONS_PER_SESSION =>
            \/ /\ question_count' = question_count
               /\ AtRest => /\ AtRest'
                            /\ messages' = messages
                            /\ thread_messages' = thread_messages
                            /\ runs' = runs
            \/ IsReset']_vars

\* the ceiling is reached in an active chat, between two script runs
C1_Witness ==
    /\ question_count = MAX_QUESTIONS_PER_SESSION
    /\ pc = "idle" /\ start_chat /\ UserPosts(thread_messages) > 2

\* C2: once run_assistant has read a non-completed terminal status, the submit
\* has ended with RunTerminatedError; the transcript ends with the user message
\* and no assistant entry of this run.
C2_RunTerminatedError ==
    (caller \in {"typed", "predefined"} /\ run.status \in NonCompletedTerminal) =>
        /\ Raised = "RunTerminatedError"
        /\ messages # <<>>
        /\ messages[Len(messages)].role = "user"

\* C3: a polling loop whose run has reached a terminal status eventually stops
\* polling.
C3_PollingStops ==
    (pc \in Polling /\ remote_run.status \in TerminalStatus) ~> (pc \notin Polling)

\* C4: is_awaiting_response (assistant_is_typing) is true while the loop polls
\* and false once the submit has been left, by return or by exception.
C4_FlagReleased ==
    /\ pc \in Polling => assistant_is_typing
    /\ AtRest => ~assistant_is_typing

\* C5: when a remote call of a user submission failed after all retries, the
\* session is as it was before the submission.
C5_UnchangedOnRemoteError ==
    (caller \in {"typed", "predefined"} /\ Raised = "APIError") => Snapshot = before

\* C6: every assistant entry of the transcript comes from a remote assistant
\* message of the run that the appending run_assistant created, and that run
\* was completed at the service when the entry was appended.
C6_AssistantEntriesOfOwnCompletedRun ==
    \A i \in DOMAIN messages :
        messages[i].role = "assistant" =>
            /\ messages[i].author = "assistant"
            /\ messages[i].by # None
            /\ messages[i].run = messages[i].by
            /\ messages[i].status = "completed"

\* a reply was harvested from a thread that also holds a reply of another run
C6_Witness ==
    \E i \in DOMAIN messages, k \in DOMAIN thread_messages :
        /\ messages[i].role = "assistant"
        /\ thread_messages[k].role = "assistant"
        /\ thread_messages[k].run_id # messages[i].by

\* C7: when create_thread failed after all retries, the session is inactive and
\* names no thread.
C7_FailedStartLeavesInactive ==
    (caller = "start" /\ Raised = "APIError") => (~start_chat /\ thread_id = None)

\* C8: when start_chat has returned, question_count is 0, the flag is clear and
\* the transcript holds only replies to the two seed prompts.
C8_StartClears ==
    (pc = "rerun" /\ caller = "seed2") =>
        /\ question_count = 0
        /\ ~assistant_is_typing
        /\ \A i \in DOMAIN messages :
               messages[i].role = "assistant" /\ messages[i].by \in {1, 2}

\* C9: while assistant_is_typing is set no question is accepted, no message is
\* posted and no run is created.
C9_FlagGuardsSubmissions ==
    [][assistant_is_typing =>
          /\ ~(AtRest /\ pc' = "create_message")
          /\ UserPosts(thread_messages') <= UserPosts(thread_messages)
          /\ runs' <= runs]_vars

\* C10: one call of safe_api_call invokes the wrapped operation at most
\* MAX_RETRIES times and has slept once per failed attempt before the current
\* one; a call that is over made one sleep less than invocations.
C10_RetryExecutor ==
    /\ attempt < MAX_RETRIES
    /\ sleeps = attempt
    /\ last_call # NoCall =>
          /\ last_call.attempts \in 1..MAX_RETRIES
          /\ last_call.sleeps = last_call.attempts - 1

\* fail, fail, succeed: the third invocation returned, after two sleeps
C10_Witness == last_call = [attempts |-> 3, sleeps |-> 2, result |-> "ok", error |-> "none"]

\* C11: a call whose wrapped operation raised the caught error on all MAX_RETRIES
\* attempts ends with APIError, which tells the attempt count and the last
\* error; no attempt is left unanswered (the loop is never left without a
\* result), and the exception ends the script run: no caller makes another
\* remote call after it.
C11_ExhaustedRetries ==
    /\ last_call.result # "None"
    /\ last_call.result = "APIError" =>
          /\ last_call.attempts = MAX_RETRIES
          /\ last_call.sleeps = MAX_RETRIES - 1
          /\ last_call.error = "transient"
          /\ pc = "idle" /\ attempt = 0 /\ run = NoRun

\* the first seed's create_message gave up after three attempts
C11_Witness ==
    /\ caller = "seed1" /\ last_call.result = "APIError"
    /\ last_call.attempts = MAX_RETRIES /\ thread_messages = <<>>

\* C12: an error of another class leaves safe_api_call in the invocation that
\* raised it: one more invocation is counted, no sleep is made, no attempt
\* follows and the script run ends with that error.
C12_NonTransientPropagates ==
    [][(pc \in ApiSites /\ last_call'.error = "other") =>
          /\ last_call'.result = "error"
          /\ last_call'.attempts = attempt + 1
          /\ last_call'.sleeps = sleeps
          /\ pc' = "idle" /\ attempt' = 0]_vars

\* the first invocation raised it: one invocation, no sleep
C12_Witness ==
    last_call = [attempts |-> 1, sleeps |-> 0, result |-> "error", error |-> "other"]

\* C13: whatever the session was, when reset_chat has run the transcript is
\* empty, question_count is 0, the session names no thread and is not active.
C13_ResetYields ==
    caller = "reset" =>
        /\ messages = <<>>
        /\ question_count = 0
        /\ thread_id = None
        /\ ~start_chat

\* a reset of a chat in which a predefined question had been answered
C13_Witness ==
    /\ caller = "reset" /\ pc = "rerun"
    /\ previous_question \in PredefinedQuestions

\* C14: when reset_chat has run every session field has the value the
\* constructor gives it, and reset_chat on a session that is in that state
\* changes no session field.
C14_ResetToInitialIdempotent ==
    /\ [](caller = "reset" => Snapshot = FreshSession)
    /\ [][(Snapshot = FreshSession /\ pc = "idle" /\ caller' = "reset") =>
             UNCHANGED session]_vars

\* a reset of a chat that was started and asked one question, before any
\* predefined question was answered
C14_Witness ==
    /\ caller = "reset" /\ pc = "rerun"
    /\ previous_question = DefaultQuestion
    /\ Snapshot = FreshSession

\* run_assistant has just returned to the handler of a question
QuestionDone ==
    /\ pc = "rerun" /\ caller \in {"typed", "predefined"} /\ last_call.result = "ok"

\* run_assistant has just returned to send_initial_messages: after the first
\* seed prompt, after the second
Seed1Done ==
    /\ pc = "create_message" /\ caller = "seed2" /\ attempt = 0
    /\ last_call.result = "ok"
Seed2Done ==
    /\ pc = "rerun" /\ caller = "seed2" /\ last_call.result = "ok"

\* list is base, then one user entry, then only assistant entries of run r
OneUserThenReplies(base, list, r) ==
    /\ Len(list) > Len(base)
    /\ SubSeq(list, 1, Len(base)) = base
    /\ list[Len(base) + 1].role = "user"
    /\ \A j \in (Len(base) + 2)..Len(list) :
           list[j].role = "assistant" /\ list[j].run = r

\* list is base, then only assistant entries of run r
OnlyReplies(base, list, r) ==
    /\ Len(list) >= Len(base)
    /\ SubSeq(list, 1, Len(base)) = base
    /\ \A j \in (Len(base) + 1)..Len(list) :
           list[j].role = "assistant" /\ list[j].run = r

\* C15 (as stated): when a submission has returned, be it a typed question, a
\* predefined question or a seed prompt, the transcript ends with one user
\* entry followed by the assistant entries of that submission's run.
C15_EverySubmitAppendsUserEntry ==
    (QuestionDone \/ Seed1Done \/ Seed2Done) =>
        \E k \in 0..Len(messages) :
            OneUserThenReplies(SubSeq(messages, 1, k), messages, run.id)

\* C15 (amended): a typed or predefined question that has returned appended
\* one user entry to the transcript it found, followed by the assistant
\* entries of its run; a seed prompt that has returned appended the assistant
\* entries of its run and no user entry.
C15_QuestionAppendsUserEntry ==
    /\ QuestionDone => OneUserThenReplies(before.messages, messages, run.id)
    /\ Seed1Done => OnlyReplies(<<>>, messages, run.id)
    /\ Seed2Done =>
          \E k \in 0..Len(messages) :
              /\ OnlyReplies(<<>>, SubSeq(messages, 1, k), run.id - 1)
              /\ OnlyReplies(SubSeq(messages, 1, k), messages, run.id)

\* a typed question was answered in a transcript that held the seeds' replies
C15_Witness ==
    /\ QuestionDone /\ caller = "typed"
    /\ before.messages # <<>>
    /\ Len(messages) = Len(before.messages) + 2

\* start_chat() and send_initial_messages() are running
Starting == {"start", "seed1", "seed2"}

\* C16: a question enters the run/poll engine only through a quota check that
\* allowed it and added exactly 1 to question_count, and that holds for every
\* message posted and run created on its behalf; a session at the ceiling
\* posts nothing and creates no run until it is reset; start_chat and its seed
\* submissions leave question_count as it is.
C16_QuotaCheckPrecedes ==
    /\ []((caller \in {"typed", "predefined"} /\ pc \in ApiSites \cup Polling) =>
             /\ QuotaAllowed(before.question_count)
             /\ question_count = before.question_count + 1)
    /\ [][(AtRest /\ pc' = "create_message") =>
             /\ QuotaAllowed(question_count)
             /\ question_count' = question_count + 1]_vars
    /\ [][(AtRest /\ ~QuotaAllowed(question_count)) =>
             /\ AtRest'
             /\ UserPosts(thread_messages') <= UserPosts(thread_messages)
             /\ runs' <= runs
             /\ (question_count' = question_count \/ IsReset')]_vars
    /\ [][caller' \in Starting => question_count' = question_count]_vars

\* the last question the ceiling allows is a predefined one, and its run exists
C16_Witness ==
    /\ caller = "predefined" /\ pc \in Polling
    /\ before.question_count = MAX_QUESTIONS_PER_SESSION - 1
    /\ question_count = MAX_QUESTIONS_PER_SESSION

\* C17 (as stated): once a start has stored a thread identifier, it stays the
\* same until a reset clears it.
C17_ThreadSetOncePerSession ==
    [][thread_id # None => (thread_id' = thread_id \/ thread_id' = None)]_vars

\* C17 (amended): a start whose create_thread returned stores the identifier
\* of one new thread; the stored identifier changes only there and in
\* reset_chat, which clears it; a session that is not active names no thread.
C17_ThreadSetOncePerStart ==
    /\ [](~start_chat => thread_id = None)
    /\ [][(pc = "create_thread" /\ last_call'.result = "ok") =>
             /\ thread_id' \in ThreadIds
             /\ thread_id' # thread_id
             /\ pc' # "create_thread"]_vars
    /\ [][thread_id' # thread_id =>
             \/ pc = "create_thread" /\ caller = "start" /\ last_call'.result = "ok"
             \/ thread_id' = None /\ ~start_chat']_vars

\* "Start Chat" pressed in an active chat: the session names a second thread
C17_Witness ==
    /\ thread_id = 2 /\ caller = "seed1" /\ pc = "create_message"
    /\ last_call.result = "ok"

\* the texts posted to the thread by the session, in order
Posted == [i \in 1..UserPosts(thread_messages) |->
              SelectSeq(thread_messages, LAMBDA m : m.role = "user")[i].content]

\* C18: start posts two seed prompts, the analysis request and then the
\* outreach-drafts request; the second is posted only when the first seed's run
\* has been read as completed, start returns only when the second seed's run
\* has been too, and in the transcript the replies to the first seed precede
\* the replies to the second.
C18_TwoSeedsInOrder ==
    /\ [](Seed1Done =>
             /\ Posted = <<"initial_prompt">>
             /\ run = [id |-> 1, status |-> "completed"]
             /\ remote_run = run)
    /\ [][(caller = "seed2" /\ pc = "create_message" /\ pc' # pc /\ pc' # "idle") =>
             /\ run = [id |-> 1, status |-> "completed"]
             /\ Posted = <<"initial_prompt">>
             /\ Posted' = <<"initial_prompt", "second_prompt">>]_vars
    /\ []((caller = "seed2" /\ pc = "rerun") =>
             /\ Posted = <<"initial_prompt", "second_prompt">>
             /\ runs = 2
             /\ run = [id |-> 2, status |-> "completed"]
             /\ remote_run = run
             /\ \E k \in 0..Len(messages) :
                    /\ OnlyReplies(<<>>, SubSeq(messages, 1, k), 1)
                    /\ OnlyReplies(SubSeq(messages, 1, k), messages, 2))

\* start has returned and each seed has one reply in the transcript
C18_Witness ==
    /\ Seed2Done
    /\ Len(messages) = 2
    /\ messages[1].run = 1 /\ messages[2].run = 2

\* get_run_status() returns in this step
Fetched == pc = "poll" /\ last_call'.result = "ok"

\* the wrapped runs.retrieve is invoked in this step
Fetch == pc = "poll" /\ executor' # executor

\* C19: the status fetches of one submit follow the run's statuses: a fetch
\* reads the status the run has, is followed by another fetch when that status
\* is not terminal and by the harvest when it is completed (so the statuses
\* queued, in_progress, in_progress, completed take exactly 4 fetches), and
\* after a terminal status has been read no fetch is made.
C19_FetchesFollowStatus ==
    /\ [][Fetched =>
             /\ run'.status = remote_run.status
             /\ run'.status \notin TerminalStatus => pc' = "poll_sleep"
             /\ run'.status = "completed" => pc' = "harvest"
             /\ run'.status \in TerminalStatus => pc' \notin Polling]_vars
    /\ [][run.status \in TerminalStatus => ~Fetch]_vars

\* s is a prefix of t
IsPrefix(s, t) == Len(s) <= Len(t) /\ SubSeq(t, 1, Len(s)) = s

\* C20 (as stated): in a session that was started, until it is reset, a step leaves
\* question_count as it is or adds 1 to it, and leaves the transcript a prefix
\* of the new transcript.
C20_MonotoneUntilReset ==
    [][(start_chat /\ thread_id # None /\ start_chat') =>
          /\ question_count' \in {question_count, question_count + 1}
          /\ IsPrefix(messages, messages')]_vars

\* C20 (amended): in an active session a step leaves question_count as it is
\* or adds 1 to it; it leaves the transcript a prefix of the new transcript,
\* unless the step is a new start, which empties the transcript, or a reset.
C20_MonotoneUntilStartOrReset ==
    /\ [][start_chat' =>
             question_count' \in {question_count, question_count + 1}]_vars
    /\ [][(start_chat /\ start_chat' /\ ~(pc = "rerun" /\ pc' = "create_thread")) =>
             IsPrefix(messages, messages')]_vars

\* both counted questions of the session are in its transcript, below the
\* replies to the seeds
C20_Witness ==
    /\ start_chat /\ pc = "idle"
    /\ question_count = 2
    /\ Len(messages) >= 4
    /\ messages[1].role = "assistant"
    /\ UserPosts(messages) = 2

\* C21: between script runs an active session names a thread, and no
\* create_message or create_run call is made for a session that names none.
C21_ActiveHasThread ==
    /\ (AtRest /\ start_chat) => thread_id # None
    /\ pc \in {"create_message", "create_run"} => thread_id # None

\* C22: between script runs question_count is the number of user entries of
\* the transcript.
C22_CountIsUserEntries ==
    AtRest => question_count = UserPosts(messages)

\* C23: a predefined question is submitted only by the script run that its
\* selection triggered: a later script run that finds the selection unchanged,
\* also one that follows a failed submission or a new start, takes no quota
\* unit, appends no user entry and posts nothing for it.
C23_OneSelectionOneSubmission ==
    [][(thread_id # None /\ predefined_question' = predefined_question
          /\ ~(pc = "rerun" /\ caller = "none")) =>
             ~(caller' = "predefined" /\ pc' = "create_message"
                 /\ question_count' = question_count + 1
                 /\ UserPosts(messages') = UserPosts(messages) + 1)]_vars

====
